---- MODULE Spec2Model ----
(***************************************************************************)
(* rclcpp::WaitSetTemplate<StoragePolicy, SynchronizationPolicy>           *)
(* (wait_set_template.hpp) composed with a dynamic storage policy and the  *)
(* thread-safe synchronization policy.                                     *)
(*                                                                         *)
(* One thread calls wait() and owns the WaitResult it gets back; another   *)
(* thread calls add_guard_condition, remove_guard_condition and            *)
(* prune_deleted_entities; the user owns the guard conditions through      *)
(* shared pointers and drops them.  Which entities the wait primitive      *)
(* finds ready is its answer: any nonempty part of the rcl wait set.       *)
(*                                                                         *)
(* WaitSetTemplate itself is translated from the header.  The two policies *)
(* and the rcl wait primitive are not part of the sources at hand: the     *)
(* storage_*, sync_* and rcl_wait definitions follow the design text and   *)
(* the header's documentation of what each policy call guarantees.         *)
(***************************************************************************)
EXTENDS Integers, Sequences, FiniteSets

\* ------------------------------------------------------------------ bounds
NumGC == 2
MaxWait == 2

\* The width the model gives rcl_duration_value_t (int64_t in the program);
\* the fields of the message (int32_t, uint32_t) get half of it.
IntBits == 6

\* ---------------------------------------------------------------- constants
\* nullptr, as an entity id no guard condition has.
NULL == 0
\* wait()'s default Period is std::milli: one period is 10^6 nanoseconds.
PeriodNs == 1000000

GC == 1..NumGC
\* wait() is called to wait indefinitely, not at all, or MaxWait periods.
TimesToWait == {-1, 0, MaxWait}

Range(s) == {s[i] : i \in 1..Len(s)}
Max(a, b) == IF a >= b THEN a ELSE b

VARIABLES
  \* the user's shared pointers to the guard conditions
  ext,
  \* storage policy
  guard_conditions_, shared_guard_conditions_, ownership_reference_counter_,
  rcl_wait_set,
  \* synchronization policy
  number_of_writers_waiting_, reader_active_, interrupt_triggered,
  \* WaitSetTemplate
  wait_result_holding_,
  \* the thread in wait()
  w_pc, time_to_wait, elapsed, deadline, interrupted, w_result,
  \* the thread in add/remove/prune
  m_pc, m_op, m_arg, m_result,
  \* a wait set with fixed storage, its user and the thread in its wait()
  fx_given, fx_guard_conditions_, fx_ext, fx_rcl_wait_set, fx_pc, fx_result,
  \* two Durations, the operation applied to them and what it gave
  d_lhs, d_rhs, d_build, d_op, d_out,
  \* a Duration message and what assigning it to a Duration gave
  d_msg, d_assign

entity_vars == <<ext>>
storage_vars == <<guard_conditions_, shared_guard_conditions_,
                  ownership_reference_counter_, rcl_wait_set>>
sync_vars == <<number_of_writers_waiting_, reader_active_, interrupt_triggered>>
waiter_vars == <<w_pc, time_to_wait, elapsed, deadline, interrupted, w_result>>
mutator_vars == <<m_pc, m_op, m_arg, m_result>>
dynamic_vars == <<entity_vars, storage_vars, sync_vars, wait_result_holding_,
                  waiter_vars, mutator_vars>>
fixed_vars == <<fx_given, fx_guard_conditions_, fx_ext, fx_rcl_wait_set, fx_pc,
                fx_result>>
duration_vars == <<d_lhs, d_rhs, d_build, d_op, d_out, d_msg, d_assign>>
vars == <<ext, guard_conditions_, shared_guard_conditions_,
          ownership_reference_counter_, rcl_wait_set,
          number_of_writers_waiting_, reader_active_,
          interrupt_triggered, wait_result_holding_,
          w_pc, time_to_wait, elapsed, deadline, interrupted, w_result,
          m_pc, m_op, m_arg, m_result,
          fx_given, fx_guard_conditions_, fx_ext, fx_rcl_wait_set, fx_pc,
          fx_result,
          d_lhs, d_rhs, d_build, d_op, d_out, d_msg, d_assign>>

\* ---------------------------------------------------------------- entities
\* A guard condition lives as long as some shared_ptr to it does: the user's,
\* the wait set's while it holds ownership, or the argument of a running call.
Alive(g) ==
  \/ g \in ext
  \/ g \in shared_guard_conditions_
  \/ (m_pc # "idle" /\ m_arg = g)

Destroyed(g) == ~Alive(g)

Members == Range(guard_conditions_)
AliveMembers == {g \in Members : Alive(g)}

InWait == w_pc \in {"lock", "rcl_wait"}

\* ----------------------------------------------------------- storage policy
\* The dynamic storage policy: weak references in guard_conditions_, shared
\* ones in shared_guard_conditions_ while ownership is held (a counter, since
\* wait() and the WaitResult nest their holds).

Own == [shared |-> shared_guard_conditions_, cnt |-> ownership_reference_counter_]

\* Locks every weak reference that has not expired; nested calls only count.
storage_acquire_ownerships(own) ==
  [shared |-> IF own.cnt = 0 THEN AliveMembers ELSE own.shared,
   cnt |-> own.cnt + 1]

\* Resets the shared references when the last hold goes.
storage_release_ownerships(own) ==
  [shared |-> IF own.cnt - 1 = 0 THEN {} ELSE own.shared,
   cnt |-> own.cnt - 1]

\* The storage calls below give the membership, the owned entities and the
\* rcl wait set they leave (they flag it for the next rebuild and touch none
\* of its entries), and what they throw.

\* Throws std::runtime_error when the entity is already in the wait set.
\* While ownership is held, the new entity is owned as well.
storage_add_guard_condition(g) ==
  IF g \in Members
    THEN [gcs |-> guard_conditions_, shared |-> shared_guard_conditions_,
          rcl |-> rcl_wait_set, err |-> "runtime_error"]
    ELSE [gcs |-> Append(guard_conditions_, g),
          shared |-> IF ownership_reference_counter_ > 0
                       THEN shared_guard_conditions_ \cup {g}
                       ELSE shared_guard_conditions_,
          rcl |-> rcl_wait_set, err |-> "ok"]

\* Throws std::runtime_error when the entity is not in the wait set; releases
\* the shared ownership of the removed entity.
storage_remove_guard_condition(g) ==
  IF g \notin Members
    THEN [gcs |-> guard_conditions_, shared |-> shared_guard_conditions_,
          rcl |-> rcl_wait_set, err |-> "runtime_error"]
    ELSE [gcs |-> SelectSeq(guard_conditions_, LAMBDA x : x # g),
          shared |-> shared_guard_conditions_ \ {g},
          rcl |-> rcl_wait_set, err |-> "ok"]

\* Erases the weak references that have expired; dereferences nothing.
storage_prune_deleted_entities ==
  [gcs |-> SelectSeq(guard_conditions_, LAMBDA x : Alive(x)),
   shared |-> shared_guard_conditions_,
   rcl |-> rcl_wait_set, err |-> "ok"]

\* Clears the rcl wait set and adds every entity that can still be locked;
\* an expired weak reference met on the way is pruned.
storage_rebuild_rcl_wait_set ==
  [gcs |-> SelectSeq(guard_conditions_, LAMBDA x : Alive(x)),
   rcl |-> AliveMembers]

storage_get_rcl_wait_set == rcl_wait_set

\* ------------------------------------------------- WaitSetTemplate: lambdas
\* The callbacks WaitSetTemplate hands to the synchronization policy.

\* As add_guard_condition_inner, adding without the storage policy's test
\* for an entity that is already there.
add_guard_condition_inner_unchecked(g) ==
  [gcs |-> Append(guard_conditions_, g),
   shared |-> shared_guard_conditions_,
   rcl |-> rcl_wait_set, err |-> "ok"]

add_guard_condition_inner(g) == storage_add_guard_condition(g)

\* As remove_guard_condition_inner, an entity that is not there passed over
\* in silence.
remove_guard_condition_inner_silent(g) ==
  [storage_remove_guard_condition(g) EXCEPT !.err = "ok"]

remove_guard_condition_inner(g) == storage_remove_guard_condition(g)

\* As prune_deleted_entities_inner, the storage policy's call left out.
prune_deleted_entities_inner_skip ==
  [gcs |-> guard_conditions_, shared |-> shared_guard_conditions_,
   rcl |-> rcl_wait_set, err |-> "ok"]

\* As prune_deleted_entities_inner, rebuilding the rcl wait set at once.
prune_deleted_entities_inner_rebuilds ==
  [storage_prune_deleted_entities EXCEPT !.rcl = AliveMembers]

prune_deleted_entities_inner == storage_prune_deleted_entities

\* As rebuild_rcl_wait_set, the storage policy's call left out.
rebuild_rcl_wait_set_skip == [gcs |-> guard_conditions_, rcl |-> rcl_wait_set]

\* As rebuild_rcl_wait_set, the entries left by the last rcl_wait not cleared.
rebuild_rcl_wait_set_keeps_entries ==
  [storage_rebuild_rcl_wait_set EXCEPT !.rcl = rcl_wait_set \cup AliveMembers]

rebuild_rcl_wait_set == storage_rebuild_rcl_wait_set

get_rcl_wait_set == storage_get_rcl_wait_set

\* As create_wait_result, the Empty case falling into the Timeout case.
create_wait_result_empty_as_timeout(kind) ==
  CASE kind = "Ready" -> "Ready"
    [] kind = "Timeout" -> "Timeout"
    [] kind = "Empty" -> "Timeout"
    [] OTHER -> "runtime_error"

\* The WaitResult made from the policy's WaitResultKind.
create_wait_result(kind) ==
  CASE kind = "Ready" -> "Ready"
    [] kind = "Timeout" -> "Timeout"
    [] kind = "Empty" -> "Empty"
    [] OTHER -> "runtime_error"

\* As time_to_wait_ns, the count taken without the conversion of the period.
time_to_wait_ns_count_only(t) == t

\* As time_to_wait_ns, into an unsigned count.
time_to_wait_ns_unsigned(t) == IF t < 0 THEN -t * PeriodNs ELSE t * PeriodNs

\* As time_to_wait_ns, of the parameter's default instead of the argument.
time_to_wait_ns_default(t) == -1 * PeriodNs

\* duration_cast<std::chrono::nanoseconds>(time_to_wait)
time_to_wait_ns(t) == t * PeriodNs

\* --------------------------------------------------- synchronization policy
\* The thread-safe policy: a write-preferring read-write lock whose writers,
\* on entering, trigger the internal guard condition every wait includes.

\* A writer announces itself and interrupts the wait in progress.
sync_enter(op, g) ==
  /\ m_pc' = "waiting"
  /\ m_op' = op
  /\ m_arg' = g
  /\ m_result' = "none"
  /\ number_of_writers_waiting_' = number_of_writers_waiting_ + 1
  /\ interrupt_triggered' = TRUE
  /\ UNCHANGED reader_active_

\* The reader side admits nobody while a writer waits or writes.
ReadLockFree == number_of_writers_waiting_ = 0

\* Only loop if time has not elapsed; loop forever when waiting indefinitely.
should_loop(t_ns) == t_ns < 0 \/ (t_ns > 0 /\ elapsed < t_ns)

\* How long the next rcl_wait may take, seen from the start of wait().
time_left_to_wait_ns(t_ns) == IF t_ns < 0 THEN -1 ELSE Max(0, t_ns - elapsed)

\* The hold a WaitResult keeps on the read side, and its release.
sync_wait_result_acquire == TRUE

sync_wait_result_release == FALSE

\* --------------------------------------------- WaitSetTemplate: WaitResult
\* As wait_result_acquire, the hold on thread-safety not taken: the read lock
\* goes when sync_wait returns.
wait_result_acquire_without_sync_hold(own) ==
  IF wait_result_holding_
    THEN [err |-> TRUE, holding |-> wait_result_holding_,
          reader |-> reader_active_, own |-> own]
    ELSE [err |-> FALSE, holding |-> TRUE,
          reader |-> FALSE,
          own |-> storage_acquire_ownerships(own)]

\* Called by the WaitResult's constructor: the hold on ownership and on
\* thread-safety.  "err" says that it threw.
wait_result_acquire(own) ==
  IF wait_result_holding_
    THEN [err |-> TRUE, holding |-> wait_result_holding_,
          reader |-> reader_active_, own |-> own]
    ELSE [err |-> FALSE, holding |-> TRUE,
          reader |-> sync_wait_result_acquire,
          own |-> storage_acquire_ownerships(own)]

\* As wait_result_release, the hold on thread-safety not given back.
wait_result_release_keeps_hold ==
  /\ w_pc = "holding"
  /\ wait_result_holding_
  /\ wait_result_holding_' = FALSE
  /\ LET own == storage_release_ownerships(Own)
     IN /\ shared_guard_conditions_' = own.shared
        /\ ownership_reference_counter_' = own.cnt
  /\ w_pc' = "idle"
  /\ UNCHANGED <<reader_active_, time_to_wait, elapsed, deadline, interrupted,
                 w_result,
                 guard_conditions_, rcl_wait_set, number_of_writers_waiting_,
                 interrupt_triggered, ext, mutator_vars>>
  /\ UNCHANGED <<fixed_vars, duration_vars>>

\* Called by the WaitResult's destructor.
wait_result_release ==
  /\ w_pc = "holding"
  /\ wait_result_holding_
  /\ wait_result_holding_' = FALSE
  /\ LET own == storage_release_ownerships(Own)
     IN /\ shared_guard_conditions_' = own.shared
        /\ ownership_reference_counter_' = own.cnt
  /\ reader_active_' = sync_wait_result_release
  /\ w_pc' = "idle"
  /\ UNCHANGED <<time_to_wait, elapsed, deadline, interrupted, w_result,
                 guard_conditions_, rcl_wait_set, number_of_writers_waiting_,
                 interrupt_triggered, ext, mutator_vars>>
  /\ UNCHANGED <<fixed_vars, duration_vars>>

\* ------------------------------------------------- WaitSetTemplate: wait()
\* As wait, without taking the ownership.
wait_without_ownership(t) ==
  /\ w_pc = "idle"
  /\ time_to_wait' = t
  /\ elapsed' = 0
  /\ deadline' = 0
  /\ interrupted' = FALSE
  /\ w_result' = "none"
  /\ w_pc' = "lock"
  /\ UNCHANGED <<shared_guard_conditions_, ownership_reference_counter_,
                 guard_conditions_, rcl_wait_set, sync_vars,
                 wait_result_holding_, entity_vars, mutator_vars>>
  /\ UNCHANGED <<fixed_vars, duration_vars>>

\* wait(): take shared ownership of the entities, then enter the policy's
\* sync_wait (the steps below); the scope exit releases the ownership.
wait(t) ==
  /\ w_pc = "idle"
  /\ time_to_wait' = t
  /\ elapsed' = 0
  /\ deadline' = 0
  /\ interrupted' = FALSE
  /\ w_result' = "none"
  /\ LET own == storage_acquire_ownerships(Own)
     IN /\ shared_guard_conditions_' = own.shared
        /\ ownership_reference_counter_' = own.cnt
  /\ w_pc' = "lock"
  /\ UNCHANGED <<guard_conditions_, rcl_wait_set, sync_vars,
                 wait_result_holding_, entity_vars, mutator_vars>>
  /\ UNCHANGED <<fixed_vars, duration_vars>>

\* As wait_scope_exit, a release that only runs on the normal return.
wait_scope_exit_skip(own) == own

\* RCLCPP_SCOPE_EXIT({this->storage_release_ownerships();})
wait_scope_exit(own) == storage_release_ownerships(own)

\* wait() returns a result that holds nothing (Timeout, Empty), or throws.
WaitLeave(result) ==
  /\ w_result' = result
  /\ w_pc' = "idle"
  /\ reader_active_' = FALSE
  /\ LET own == wait_scope_exit(Own)
     IN /\ shared_guard_conditions_' = own.shared
        /\ ownership_reference_counter_' = own.cnt
  /\ elapsed' = 0
  /\ deadline' = 0
  /\ interrupted' = FALSE
  /\ UNCHANGED <<wait_result_holding_, time_to_wait>>

\* sync_wait, head of the loop: under the read lock, rebuild the rcl wait
\* set; rcl_wait on an empty wait set returns at once.
WaitRebuild ==
  /\ w_pc = "lock"
  /\ ReadLockFree
  /\ LET r == rebuild_rcl_wait_set
     IN /\ guard_conditions_' = r.gcs
        /\ rcl_wait_set' = r.rcl
        /\ IF r.rcl = {}
             THEN /\ WaitLeave(create_wait_result("Empty"))
             ELSE /\ w_pc' = "rcl_wait"
                  /\ reader_active_' = TRUE
                  /\ deadline' =
                       LET left == time_left_to_wait_ns(time_to_wait_ns(time_to_wait))
                       IN IF left < 0 THEN 0 ELSE elapsed + left
                  /\ UNCHANGED <<shared_guard_conditions_,
                                 ownership_reference_counter_, w_result,
                                 wait_result_holding_, time_to_wait, elapsed,
                                 interrupted>>
  /\ UNCHANGED <<number_of_writers_waiting_, interrupt_triggered, ext,
                 mutator_vars>>
  /\ UNCHANGED <<fixed_vars, duration_vars>>

\* rcl_wait returns RCL_RET_OK with the entities ReadyNow of the rcl wait set
\* ready (the internal guard condition, when triggered, among the rest); it
\* leaves only the ready entities in the rcl wait set, which is where the
\* WaitResult shows them.
WaitReady(ReadyNow) ==
  /\ w_pc = "rcl_wait"
  /\ ReadyNow # {}
  /\ ReadyNow \subseteq get_rcl_wait_set
  /\ rcl_wait_set' = ReadyNow
  /\ interrupt_triggered' = FALSE
  /\ LET res == create_wait_result("Ready")
         acq == wait_result_acquire(Own)
         own == wait_scope_exit(acq.own)
     IN IF res = "Ready" /\ ~acq.err
          THEN /\ w_result' = res
               /\ w_pc' = "holding"
               /\ wait_result_holding_' = acq.holding
               /\ reader_active_' = acq.reader
               /\ shared_guard_conditions_' = own.shared
               /\ ownership_reference_counter_' = own.cnt
               /\ interrupted' = FALSE
               /\ elapsed' = 0
               /\ deadline' = 0
               /\ UNCHANGED time_to_wait
          ELSE WaitLeave(IF res = "Ready" THEN "runtime_error" ELSE res)
  /\ UNCHANGED <<ext, guard_conditions_, number_of_writers_waiting_,
                 mutator_vars>>
  /\ UNCHANGED <<fixed_vars, duration_vars>>

EntityReady == \E R \in SUBSET GC : WaitReady(R)

\* rcl_wait returns because only the internal guard condition was triggered
\* (no entity of the user stays in the rcl wait set): the read lock is
\* dropped and the loop goes on while time is left.
WaitInterrupted ==
  /\ w_pc = "rcl_wait"
  /\ interrupt_triggered
  /\ interrupt_triggered' = FALSE
  /\ IF should_loop(time_to_wait_ns(time_to_wait))
       THEN /\ w_pc' = "lock"
            /\ reader_active_' = FALSE
            /\ interrupted' = TRUE
            /\ UNCHANGED <<shared_guard_conditions_,
                           ownership_reference_counter_, w_result,
                           wait_result_holding_, time_to_wait, elapsed, deadline>>
       ELSE WaitLeave(create_wait_result("Timeout"))
  /\ rcl_wait_set' = {}
  /\ UNCHANGED <<guard_conditions_, number_of_writers_waiting_,
                 ext, mutator_vars>>
  /\ UNCHANGED <<fixed_vars, duration_vars>>

\* rcl_wait returns RCL_RET_TIMEOUT: the time left has passed, nothing is
\* ready and nothing stays in the rcl wait set.
WaitTimeout ==
  /\ w_pc = "rcl_wait"
  /\ ~interrupt_triggered
  /\ time_to_wait_ns(time_to_wait) >= 0
  /\ elapsed >= deadline
  /\ WaitLeave(create_wait_result("Timeout"))
  /\ rcl_wait_set' = {}
  /\ UNCHANGED <<guard_conditions_, number_of_writers_waiting_,
                 interrupt_triggered, ext, mutator_vars>>
  /\ UNCHANGED <<fixed_vars, duration_vars>>

\* rcl_wait fails: throw_from_rcl_error, out of sync_wait and out of wait().
RclWaitFail ==
  /\ w_pc = "rcl_wait"
  /\ WaitLeave("RCLError")
  /\ UNCHANGED <<guard_conditions_, rcl_wait_set, number_of_writers_waiting_,
                 interrupt_triggered, ext, mutator_vars>>
  /\ UNCHANGED <<fixed_vars, duration_vars>>

\* The steady clock moves on by one period while wait() runs; a rcl_wait
\* whose time left has passed returns before more time passes.  From
\* time_to_wait on every reading of the clock has the same effect.
Tick ==
  /\ InWait
  /\ time_to_wait_ns(time_to_wait) >= 0
  /\ elapsed < time_to_wait_ns(time_to_wait)
  /\ w_pc = "rcl_wait" => elapsed < deadline
  /\ elapsed' = elapsed + PeriodNs
  /\ UNCHANGED <<w_pc, time_to_wait, deadline, interrupted, w_result,
                 storage_vars,
                 sync_vars, wait_result_holding_, entity_vars, mutator_vars>>
  /\ UNCHANGED <<fixed_vars, duration_vars>>

\* ------------------------------------ WaitSetTemplate: add, remove, prune
\* A call that throws before any policy is entered.
ThrowInvalidArgument(op) ==
  /\ m_pc' = "idle"
  /\ m_op' = "none"
  /\ m_arg' = NULL
  /\ m_result' = "invalid_argument"
  /\ UNCHANGED <<storage_vars, sync_vars>>

\* The callback applied with no synchronization at all.
ApplyUnsynchronized(op, r) ==
  /\ m_pc' = "idle"
  /\ m_op' = "none"
  /\ m_arg' = NULL
  /\ m_result' = r.err
  /\ guard_conditions_' = r.gcs
  /\ shared_guard_conditions_' = r.shared
  /\ rcl_wait_set' = r.rcl
  /\ UNCHANGED <<ownership_reference_counter_, sync_vars>>

\* As add_guard_condition, the callback run outside the policy.
add_guard_condition_unsynchronized(g) ==
  /\ m_pc = "idle"
  /\ IF g = NULL
       THEN ThrowInvalidArgument("add")
       ELSE ApplyUnsynchronized("add", add_guard_condition_inner(g))
  /\ UNCHANGED <<wait_result_holding_, ext, waiter_vars>>
  /\ UNCHANGED <<fixed_vars, duration_vars>>

\* As add_guard_condition, without the test for nullptr.
add_guard_condition_no_null_check(g) ==
  /\ m_pc = "idle"
  /\ sync_enter("add", g)
  /\ UNCHANGED <<storage_vars, wait_result_holding_, entity_vars, waiter_vars>>
  /\ UNCHANGED <<fixed_vars, duration_vars>>

add_guard_condition(g) ==
  /\ m_pc = "idle"
  /\ IF g = NULL
       THEN ThrowInvalidArgument("add")
       ELSE sync_enter("add", g) /\ UNCHANGED storage_vars
  /\ UNCHANGED <<wait_result_holding_, entity_vars, waiter_vars>>
  /\ UNCHANGED <<fixed_vars, duration_vars>>

\* As remove_guard_condition, the callback run outside the policy.
remove_guard_condition_unsynchronized(g) ==
  /\ m_pc = "idle"
  /\ IF g = NULL
       THEN ThrowInvalidArgument("remove")
       ELSE ApplyUnsynchronized("remove", remove_guard_condition_inner(g))
  /\ UNCHANGED <<wait_result_holding_, ext, waiter_vars>>
  /\ UNCHANGED <<fixed_vars, duration_vars>>

remove_guard_condition(g) ==
  /\ m_pc = "idle"
  /\ IF g = NULL
       THEN ThrowInvalidArgument("remove")
       ELSE sync_enter("remove", g) /\ UNCHANGED storage_vars
  /\ UNCHANGED <<wait_result_holding_, entity_vars, waiter_vars>>
  /\ UNCHANGED <<fixed_vars, duration_vars>>

prune_deleted_entities ==
  /\ m_pc = "idle"
  /\ sync_enter("prune", NULL)
  /\ UNCHANGED <<storage_vars, wait_result_holding_, entity_vars, waiter_vars>>
  /\ UNCHANGED <<fixed_vars, duration_vars>>

Inner(op, g) ==
  CASE op = "add" -> add_guard_condition_inner(g)
    [] op = "remove" -> remove_guard_condition_inner(g)
    [] OTHER -> prune_deleted_entities_inner

\* The writer gets the lock once no reader is active; under the write lock
\* the callback runs; the lock is released and the call returns, or throws
\* what the storage policy threw.  Nothing else reads or writes the wait set
\* while the write lock is held, so the three are one step.
SyncApply ==
  /\ m_pc = "waiting"
  /\ ~reader_active_
  /\ number_of_writers_waiting_' = number_of_writers_waiting_ - 1
  /\ LET r == Inner(m_op, m_arg)
     IN /\ guard_conditions_' = r.gcs
        /\ shared_guard_conditions_' = r.shared
        /\ rcl_wait_set' = r.rcl
        /\ m_result' = r.err
  /\ m_pc' = "idle"
  /\ m_op' = "none"
  /\ m_arg' = NULL
  /\ UNCHANGED <<ownership_reference_counter_, reader_active_,
                 interrupt_triggered, wait_result_holding_, ext,
                 waiter_vars>>
  /\ UNCHANGED <<fixed_vars, duration_vars>>

\* ------------------------------------------------------------------- user
\* The user's last shared_ptr to g goes out of scope.
DropReference(g) ==
  /\ g \in ext
  /\ ext' = ext \ {g}
  /\ UNCHANGED <<storage_vars, sync_vars, wait_result_holding_,
                 waiter_vars, mutator_vars>>
  /\ UNCHANGED <<fixed_vars, duration_vars>>

\* ------------------------------------------------------------ specification
\* No wait set with fixed storage is in play.
NoFixedWaitSet ==
  /\ fx_given = {}
  /\ fx_guard_conditions_ = {}
  /\ fx_ext = {}
  /\ fx_rcl_wait_set = {}
  /\ fx_pc = "destroyed"
  /\ fx_result = "none"

\* No Duration is in play.
NoDuration ==
  /\ d_lhs = 0
  /\ d_rhs = 0
  /\ d_build = "wrap"
  /\ d_op = "none"
  /\ d_out = [kind |-> "none", ns |-> 0]
  /\ d_msg = [sec |-> 0, nanosec |-> 0]
  /\ d_assign = [kind |-> "none", ns |-> 0]

\* A wait set with dynamic storage, constructed with no guard conditions.
DynamicInit ==
  /\ ext = GC
  /\ guard_conditions_ = <<>>
  /\ shared_guard_conditions_ = {}
  /\ ownership_reference_counter_ = 0
  /\ rcl_wait_set = {}
  /\ number_of_writers_waiting_ = 0
  /\ reader_active_ = FALSE
  /\ interrupt_triggered = FALSE
  /\ wait_result_holding_ = FALSE
  /\ w_pc = "idle"
  /\ time_to_wait = -1
  /\ elapsed = 0
  /\ deadline = 0
  /\ interrupted = FALSE
  /\ w_result = "none"
  /\ m_pc = "idle"
  /\ m_op = "none"
  /\ m_arg = NULL
  /\ m_result = "none"

Init == DynamicInit /\ NoFixedWaitSet /\ NoDuration

WaitCall == \E t \in TimesToWait : wait(t)

AddCall == \E g \in ext \cup {NULL} : add_guard_condition(g)

RemoveCall == \E g \in ext \cup {NULL} : remove_guard_condition(g)

UserDrop == \E g \in GC : DropReference(g)

WaiterStep ==
  \/ WaitRebuild
  \/ WaitInterrupted
  \/ wait_result_release

MutatorStep == SyncApply

Next ==
  \/ WaitCall
  \/ WaitRebuild
  \/ EntityReady
  \/ WaitInterrupted
  \/ WaitTimeout
  \/ RclWaitFail
  \/ wait_result_release
  \/ Tick
  \/ AddCall
  \/ RemoveCall
  \/ prune_deleted_entities
  \/ SyncApply
  \/ UserDrop

Spec == Init /\ [][Next]_vars

\* Both threads keep running: the waiting thread goes on with sync_wait and
\* lets go of its WaitResult, the mutating thread goes on with its call.
\* Nothing makes time pass, an entity ready, or a user call wait().
FairSpec == Spec /\ WF_vars(WaiterStep) /\ WF_vars(MutatorStep)

\* As FairSpec, and the steady clock moves on: rcl_wait returns when its
\* time has passed.  The read lock is write-preferring, so a reader gets it
\* only between two writers: the waiting thread is taken to get the lock when
\* it is free again and again (strong fairness of the lock's hand-over).
TimedFairSpec ==
  /\ FairSpec
  /\ SF_vars(WaitRebuild)
  /\ WF_vars(Tick)
  /\ WF_vars(WaitTimeout)

\* ------------------------------------------------------------ fixed storage
\* WaitSetTemplate over a storage policy of fixed size: the policy takes the
\* guard conditions at construction and keeps a shared reference to each until
\* the wait set is destroyed; add, remove and prune are not enabled for it, so
\* the only operations are wait() and the destruction.  One thread uses it.

\* The storage policy's constructor: a shared reference to each guard
\* condition given.
static_storage_construct(guard_conditions) == guard_conditions

\* As WaitSetTemplate, the storage constructed from the parameter's default.
WaitSetTemplate_default_guard_conditions(guard_conditions) ==
  static_storage_construct({})

\* WaitSetTemplate(guard_conditions, context)
\*   : StoragePolicy(guard_conditions, context), SynchronizationPolicy()
WaitSetTemplate(guard_conditions) == static_storage_construct(guard_conditions)

FixedAlive(g) == g \in fx_ext \/ g \in fx_guard_conditions_

FixedInit ==
  /\ fx_given \in SUBSET GC
  /\ fx_guard_conditions_ = WaitSetTemplate(fx_given)
  /\ fx_ext = GC
  /\ fx_rcl_wait_set = {}
  /\ fx_pc = "idle"
  /\ fx_result = "none"

\* wait(): acquiring and releasing the ownership does nothing here, the
\* storage owns its entities anyway; the rcl wait set is rebuilt from them,
\* and rcl_wait on an empty one returns at once.
FixedWait ==
  /\ fx_pc = "idle"
  /\ fx_rcl_wait_set' = fx_guard_conditions_
  /\ IF fx_guard_conditions_ = {}
       THEN /\ fx_result' = create_wait_result("Empty")
            /\ fx_pc' = "idle"
       ELSE /\ fx_result' = "none"
            /\ fx_pc' = "rcl_wait"
  /\ UNCHANGED <<fx_given, fx_guard_conditions_, fx_ext>>
  /\ UNCHANGED <<dynamic_vars, duration_vars>>

\* rcl_wait returns with the entities ReadyNow ready.
FixedReady(ReadyNow) ==
  /\ fx_pc = "rcl_wait"
  /\ ReadyNow # {}
  /\ ReadyNow \subseteq fx_rcl_wait_set
  /\ fx_rcl_wait_set' = ReadyNow
  /\ fx_result' = create_wait_result("Ready")
  /\ fx_pc' = "holding"
  /\ UNCHANGED <<fx_given, fx_guard_conditions_, fx_ext>>
  /\ UNCHANGED <<dynamic_vars, duration_vars>>

FixedEntityReady == \E R \in SUBSET GC : FixedReady(R)

FixedTimeout ==
  /\ fx_pc = "rcl_wait"
  /\ fx_rcl_wait_set' = {}
  /\ fx_result' = create_wait_result("Timeout")
  /\ fx_pc' = "idle"
  /\ UNCHANGED <<fx_given, fx_guard_conditions_, fx_ext>>
  /\ UNCHANGED <<dynamic_vars, duration_vars>>

FixedRclWaitFail ==
  /\ fx_pc = "rcl_wait"
  /\ fx_result' = "RCLError"
  /\ fx_pc' = "idle"
  /\ UNCHANGED <<fx_given, fx_guard_conditions_, fx_ext, fx_rcl_wait_set>>
  /\ UNCHANGED <<dynamic_vars, duration_vars>>

\* The WaitResult is destroyed.
FixedResultRelease ==
  /\ fx_pc = "holding"
  /\ fx_pc' = "idle"
  /\ UNCHANGED <<fx_given, fx_guard_conditions_, fx_ext, fx_rcl_wait_set,
                 fx_result>>
  /\ UNCHANGED <<dynamic_vars, duration_vars>>

\* The user's last shared_ptr to g goes out of scope.
FixedDropReference(g) ==
  /\ g \in fx_ext
  /\ fx_ext' = fx_ext \ {g}
  /\ UNCHANGED <<fx_given, fx_guard_conditions_, fx_rcl_wait_set, fx_pc,
                 fx_result>>
  /\ UNCHANGED <<dynamic_vars, duration_vars>>

FixedUserDrop == \E g \in GC : FixedDropReference(g)

\* The wait set is destroyed, and with it the storage's shared references.
FixedDestroy ==
  /\ fx_pc = "idle"
  /\ fx_pc' = "destroyed"
  /\ fx_guard_conditions_' = {}
  /\ fx_rcl_wait_set' = {}
  /\ UNCHANGED <<fx_given, fx_ext, fx_result>>
  /\ UNCHANGED <<dynamic_vars, duration_vars>>

FixedNext ==
  \/ FixedWait
  \/ FixedEntityReady
  \/ FixedTimeout
  \/ FixedRclWaitFail
  \/ FixedResultRelease
  \/ FixedUserDrop
  \/ FixedDestroy

FixedSpecInit == DynamicInit /\ FixedInit /\ NoDuration

FixedSpec == FixedSpecInit /\ [][FixedNext]_vars

\* ----------------------------------------------------------------- Duration
\* rclcpp::Duration (duration.cpp), its integers scaled down from 64 and 32
\* bits to IntBits and HalfBits bits and the nanoseconds of a second scaled
\* with them; the arithmetic is the program's, modulo the scaled widths.
\* Signed overflow and std::abs of the least value are undefined: d_build is
\* what the build makes of them, a wrap-around or a trap.

RECURSIVE Pow2(_)
Pow2(n) == IF n = 0 THEN 1 ELSE 2 * Pow2(n - 1)

HalfBits == IntBits \div 2

\* std::numeric_limits<rcl_duration_value_t>::max() and ::min()
INT64_MAX == Pow2(IntBits - 1) - 1
INT64_MIN == -Pow2(IntBits - 1)
Int64 == INT64_MIN..INT64_MAX

\* std::numeric_limits<int32_t>::max() and ::min()
INT32_MAX == Pow2(HalfBits - 1) - 1
INT32_MIN == -Pow2(HalfBits - 1)

\* 1000 * 1000 * 1000, scaled: as in the program, less than a quarter of the
\* range of uint32_t.
NsPerSec == Pow2(HalfBits - 2) + 1

Builds == {"wrap", "trap"}

\* Conversion to an unsigned type of the given width: modulo 2^bits.
to_unsigned(x, bits) == x % Pow2(bits)

\* Conversion to a signed type of the given width: two's complement.
to_signed(x, bits) ==
  LET u == x % Pow2(bits)
  IN IF u >= Pow2(bits - 1) THEN u - Pow2(bits) ELSE u

\* Division and remainder of C++: the quotient truncated towards zero, the
\* remainder with the sign of the dividend.
TruncDiv(a, b) == IF a >= 0 THEN a \div b ELSE -((-a) \div b)
TruncRem(a, b) == a - b * TruncDiv(a, b)

\* std::abs(int64_t), where it wraps around for the least value.
std_abs(x) == IF x < 0 THEN to_signed(-x, IntBits) ELSE x

\* int64_t arithmetic whose exact result is x: the result when it fits, else
\* what the build makes of the overflow.
signed_result(x) ==
  IF x \in Int64 THEN [kind |-> "ok", ns |-> x]
  ELSE IF d_build = "wrap" THEN [kind |-> "ok", ns |-> to_signed(x, IntBits)]
  ELSE [kind |-> "abort", ns |-> 0]

\* The two std::abs calls at the head of a bounds check trap.
abs_traps(lhsns, rhsns) ==
  d_build = "trap" /\ (lhsns = INT64_MIN \/ rhsns = INT64_MIN)

\* #define RCL_S_TO_NS(seconds) ((seconds) * (1000LL * 1000LL * 1000LL))
RCL_S_TO_NS(seconds) == seconds * NsPerSec

\* #define RCL_NS_TO_S(nanoseconds) ((nanoseconds) / (1000LL * 1000LL * 1000LL))
RCL_NS_TO_S(nanoseconds) == TruncDiv(nanoseconds, NsPerSec)

\* What the check throws, "ok" when nothing.
bounds_check_duration_sum(lhsns, rhsns, max) ==
  LET abs_lhs == to_unsigned(std_abs(lhsns), IntBits)
      abs_rhs == to_unsigned(std_abs(rhsns), IntBits)
      sum == to_unsigned(abs_lhs + abs_rhs, IntBits)
  IN IF abs_traps(lhsns, rhsns) THEN "abort"
     ELSE IF lhsns > 0 /\ rhsns > 0
       THEN (IF sum > to_unsigned(max, IntBits) THEN "overflow_error" ELSE "ok")
     ELSE IF lhsns < 0 /\ rhsns < 0
       THEN (IF sum > to_unsigned(max, IntBits) THEN "underflow_error" ELSE "ok")
     ELSE "ok"

\* Duration::operator+
Duration_plus(lhs, rhs) ==
  LET c == bounds_check_duration_sum(lhs, rhs, INT64_MAX)
  IN IF c # "ok" THEN [kind |-> c, ns |-> 0] ELSE signed_result(lhs + rhs)

bounds_check_duration_difference(lhsns, rhsns, max) ==
  LET abs_lhs == to_unsigned(std_abs(lhsns), IntBits)
      abs_rhs == to_unsigned(std_abs(rhsns), IntBits)
      sum == to_unsigned(abs_lhs + abs_rhs, IntBits)
  IN IF abs_traps(lhsns, rhsns) THEN "abort"
     ELSE IF lhsns > 0 /\ rhsns < 0
       THEN (IF sum > to_unsigned(max, IntBits) THEN "overflow_error" ELSE "ok")
     ELSE IF lhsns < 0 /\ rhsns > 0
       THEN (IF sum > to_unsigned(max, IntBits) THEN "underflow_error" ELSE "ok")
     ELSE "ok"

\* Duration::operator-
Duration_minus(lhs, rhs) ==
  LET c == bounds_check_duration_difference(lhs, rhs, INT64_MAX)
  IN IF c # "ok" THEN [kind |-> c, ns |-> 0] ELSE signed_result(lhs - rhs)

\* Duration::operator builtin_interfaces::msg::Duration
Duration_to_msg(nanoseconds) ==
  [sec |-> to_signed(RCL_NS_TO_S(nanoseconds), HalfBits),
   nanosec |-> to_unsigned(TruncRem(nanoseconds, NsPerSec), HalfBits)]

\* The constructor, had it widened the seconds through an unsigned type of
\* their own width: negative seconds become large positive ones.
Duration_from_msg_zero_extended(duration_msg) ==
  LET seconds == to_unsigned(duration_msg.sec, HalfBits)
      ns == to_signed(to_unsigned(RCL_S_TO_NS(seconds), IntBits), IntBits)
  IN signed_result(ns + duration_msg.nanosec)

\* Duration::Duration(const builtin_interfaces::msg::Duration &): the seconds
\* widened through uint64_t, the product modulo 2^64, then made int64_t.
Duration_from_msg(duration_msg) ==
  LET seconds == to_unsigned(duration_msg.sec, IntBits)
      ns == to_signed(to_unsigned(RCL_S_TO_NS(seconds), IntBits), IntBits)
  IN signed_result(ns + duration_msg.nanosec)

\* Duration::operator=(const builtin_interfaces::msg::Duration &): the
\* seconds widened through int64_t, product and sum in int64_t.
Duration_assign_msg(duration_msg) ==
  LET seconds == to_signed(duration_msg.sec, IntBits)
      ns == signed_result(RCL_S_TO_NS(seconds))
  IN IF ns.kind # "ok" THEN ns ELSE signed_result(ns.ns + duration_msg.nanosec)

\* builtin_interfaces::msg::Duration: int32 sec, uint32 nanosec.
DurationMsgs ==
  [sec : INT32_MIN..INT32_MAX, nanosec : 0..(Pow2(HalfBits) - 1)]

DurationInit ==
  /\ d_lhs \in Int64
  /\ d_rhs \in Int64
  /\ d_build \in Builds
  /\ d_op = "none"
  /\ d_out = [kind |-> "none", ns |-> 0]
  /\ d_msg = [sec |-> 0, nanosec |-> 0]
  /\ d_assign = [kind |-> "none", ns |-> 0]

\* d_lhs + d_rhs
DurationPlus ==
  /\ d_op = "none"
  /\ d_op' = "plus"
  /\ d_out' = Duration_plus(d_lhs, d_rhs)
  /\ UNCHANGED <<d_lhs, d_rhs, d_build, d_msg, d_assign, dynamic_vars,
                 fixed_vars>>

\* d_lhs - d_rhs
DurationMinus ==
  /\ d_op = "none"
  /\ d_op' = "minus"
  /\ d_out' = Duration_minus(d_lhs, d_rhs)
  /\ UNCHANGED <<d_lhs, d_rhs, d_build, d_msg, d_assign, dynamic_vars,
                 fixed_vars>>

\* Duration(static_cast<builtin_interfaces::msg::Duration>(d_lhs))
DurationMsgRoundTrip ==
  /\ d_op = "none"
  /\ d_op' = "msg"
  /\ d_out' = Duration_from_msg(Duration_to_msg(d_lhs))
  /\ UNCHANGED <<d_lhs, d_rhs, d_build, d_msg, d_assign, dynamic_vars,
                 fixed_vars>>

DurationNext ==
  \/ DurationPlus
  \/ DurationMinus
  \/ DurationMsgRoundTrip

DurationSpecInit == DynamicInit /\ NoFixedWaitSet /\ DurationInit

DurationSpec == DurationSpecInit /\ [][DurationNext]_vars

\* An existing Duration d_lhs and a message d_msg.
DurationMsgInit ==
  /\ d_lhs \in Int64
  /\ d_rhs = 0
  /\ d_build \in Builds
  /\ d_op = "none"
  /\ d_out = [kind |-> "none", ns |-> 0]
  /\ d_msg \in DurationMsgs
  /\ d_assign = [kind |-> "none", ns |-> 0]

\* rclcpp::Duration(d_msg)
DurationConstructFromMsg ==
  /\ d_op = "none"
  /\ d_op' = "construct"
  /\ d_out' = Duration_from_msg(d_msg)
  /\ UNCHANGED <<d_lhs, d_rhs, d_build, d_msg, d_assign, dynamic_vars,
                 fixed_vars>>

\* d_lhs = d_msg
DurationAssignMsg ==
  /\ d_assign.kind = "none"
  /\ d_assign' = Duration_assign_msg(d_msg)
  /\ d_lhs' = IF d_assign'.kind = "ok" THEN d_assign'.ns ELSE d_lhs
  /\ UNCHANGED <<d_rhs, d_build, d_op, d_out, d_msg, dynamic_vars,
                 fixed_vars>>

DurationMsgNext ==
  \/ DurationConstructFromMsg
  \/ DurationAssignMsg

DurationMsgSpecInit == DynamicInit /\ NoFixedWaitSet /\ DurationMsgInit

DurationMsgSpec == DurationMsgSpecInit /\ [][DurationMsgNext]_vars

\* -------------------------------------------------------------- properties

\* C1: with the thread-safe policy, no add or remove changes the stored
\* membership in a step taken while the waiting thread is inside rcl_wait:
\* the wait is interrupted first.
C1_MutationInterruptsWait ==
  [][w_pc = "rcl_wait" =>
       /\ guard_conditions_' = guard_conditions_
       /\ (w_pc' = "rcl_wait" =>
             shared_guard_conditions_' = shared_guard_conditions_)]_vars

\* The wait an add or remove call interrupted has left rcl_wait and stands at
\* the head of its loop; the call can take the write lock.
C1_Witness ==
  /\ m_pc = "waiting"
  /\ m_op \in {"add", "remove"}
  /\ ~reader_active_
  /\ w_pc = "lock"
  /\ interrupted

\* C2: under fair scheduling of the two threads alone (no entity has to be
\* ready, no time has to pass), every add, remove or prune call that has
\* entered the policy returns.
C2_MutationNotStarved == (m_pc # "idle") ~> (m_pc = "idle")

\* A call starts while the other thread is inside an indefinite rcl_wait.
C2_Witness ==
  /\ m_pc = "waiting"
  /\ w_pc = "rcl_wait"
  /\ time_to_wait < 0

\* An add, remove or prune call returns (normally or with the storage
\* policy's error) in this step.
CallReturns ==
  /\ m_pc' = "idle"
  /\ m_result' \in {"ok", "runtime_error"}
  /\ \/ m_pc # "idle"
     \/ m_result' # m_result
     \/ guard_conditions_' # guard_conditions_

\* C3: no add, remove or prune call returns in a step across which the wait
\* stays inside rcl_wait: the wait has left rcl_wait by the time the mutation
\* is completed.
C3_WaitReturnsBeforeMutationCompletes ==
  [][(w_pc = "rcl_wait" /\ w_pc' = "rcl_wait") => ~CallReturns]_vars

\* The call that interrupted the wait has returned, and the wait is not
\* blocked.
C3_Witness ==
  /\ w_pc = "lock"
  /\ interrupted
  /\ m_pc = "idle"
  /\ m_result = "ok"

\* C4: a wait with time_to_wait >= 0 blocks, also after interruptions, on the
\* membership of the moment, until time_to_wait after its start and no longer
\* (with no time left, not at all); an interruption changes neither the time
\* gone nor time_to_wait, and a wait returns Timeout only when time_to_wait
\* has passed since its start.
C4_RemainingTimeout ==
  /\ [](w_pc = "rcl_wait" /\ time_to_wait >= 0 =>
          deadline = Max(time_to_wait * PeriodNs, elapsed))
  /\ [](w_pc = "rcl_wait" => rcl_wait_set = Members)
  /\ [][InWait /\ w_result' = "Timeout" =>
          elapsed >= time_to_wait * PeriodNs]_vars
  /\ [][w_pc = "rcl_wait" /\ interrupt_triggered /\ w_pc' = "lock" =>
          elapsed' = elapsed /\ time_to_wait' = time_to_wait]_vars

\* An interrupted wait blocks again, part of its time gone and part left.
C4_Witness ==
  /\ w_pc = "rcl_wait"
  /\ interrupted
  /\ 0 < elapsed
  /\ elapsed < deadline

\* C5: a wait that finds no entity to wait on returns Empty instead of
\* entering rcl_wait, whatever time_to_wait is; rcl_wait never runs on an
\* empty rcl wait set.
C5_EmptyNeverBlocks ==
  /\ [](w_pc = "rcl_wait" => rcl_wait_set # {})
  /\ [][(w_pc = "lock" /\ w_pc' # "lock" /\ AliveMembers = {}) =>
          (w_pc' = "idle" /\ w_result' = "Empty")]_vars

\* An indefinite wait on an empty wait set has returned Empty.
C5_Witness ==
  /\ w_pc = "idle"
  /\ w_result = "Empty"
  /\ time_to_wait < 0

C7_IndefiniteNeverTimeout ==
  time_to_wait < 0 => w_result \in {"none", "Ready", "Empty", "RCLError"}

\* An indefinite wait has returned Ready.
C7_Witness ==
  /\ w_pc = "holding"
  /\ w_result = "Ready"
  /\ time_to_wait < 0

\* C8: from the entry of wait() to its exit the wait set shares the ownership
\* of every member that is alive, so none of them is destroyed meanwhile; a
\* wait that has returned without a Ready result holds none.
C8_OwnershipDuringWait ==
  /\ InWait =>
       /\ ownership_reference_counter_ >= 1
       /\ \A g \in Members : Alive(g) => g \in shared_guard_conditions_
  /\ w_pc = "idle" =>
       /\ ownership_reference_counter_ = 0
       /\ shared_guard_conditions_ = {}

\* During a wait the wait set alone keeps a member alive.
C8_Witness ==
  /\ w_pc = "rcl_wait"
  /\ m_pc = "idle"
  /\ \E g \in Members : g \notin ext /\ Alive(g)

\* C9: the step in which wait() rebuilds the rcl wait set leaves no
\* destroyed guard condition among the members; rcl_wait never runs on a
\* destroyed guard condition and none is reported ready.
C9_DestroyedImplicitlyRemoved ==
  /\ [](w_pc \in {"rcl_wait", "holding"} => \A g \in rcl_wait_set : Alive(g))
  /\ [][w_pc = "lock" /\ w_pc' # "lock" =>
          \A g \in Range(guard_conditions_') : Alive(g)']_vars

\* wait() has been called on a wait set with a member destroyed since the
\* last wait, and with one that is alive.
C9_Witness ==
  /\ w_pc = "lock"
  /\ ~interrupted
  /\ w_result = "none"
  /\ \E g \in Members : ~Alive(g)
  /\ \E g \in Members : Alive(g)

C12_WaitErrorPropagates ==
  /\ [][w_pc = "rcl_wait" /\ w_result' = "RCLError" =>
          /\ w_pc' = "idle"
          /\ ownership_reference_counter_' = 0
          /\ shared_guard_conditions_' = {}
          /\ ~wait_result_holding_'
          /\ ~reader_active_']_vars
  /\ [](w_result = "RCLError" => w_pc = "idle" /\ ENABLED WaitCall)

\* wait() has ended with the error of rcl_wait while the user had dropped a
\* member.
C12_Witness ==
  /\ w_result = "RCLError"
  /\ \E g \in Members : g \notin ext

\* C13: no add or remove call enters the policy with nullptr; the step in
\* which a call throws std::invalid_argument changes neither the storage nor
\* the policy's state (no interrupt is triggered) nor the waiting thread.
C13_NullptrRejectedFirst ==
  /\ [](m_op \in {"add", "remove"} => m_arg # NULL)
  /\ [][m_result' = "invalid_argument" /\ m_result # "invalid_argument" =>
          /\ m_pc = "idle" /\ m_pc' = "idle"
          /\ UNCHANGED <<storage_vars, sync_vars, waiter_vars,
                         wait_result_holding_, entity_vars>>]_vars

\* A call with nullptr has thrown while the other thread stays blocked in
\* rcl_wait, not interrupted.
C13_Witness ==
  /\ m_result = "invalid_argument"
  /\ w_pc = "rcl_wait"
  /\ ~interrupt_triggered

\* C14: no guard condition is in the wait set twice; the step that completes
\* add_guard_condition throws std::runtime_error and keeps the membership
\* when the guard condition is a member, and appends it otherwise.
C14_DuplicateAddRejected ==
  /\ [](Len(guard_conditions_) = Cardinality(Members))
  /\ [][m_pc = "waiting" /\ m_op = "add" /\ m_pc' = "idle" =>
          IF m_arg \in Members
            THEN /\ m_result' = "runtime_error"
                 /\ guard_conditions_' = guard_conditions_
            ELSE /\ m_result' = "ok"
                 /\ guard_conditions_' = Append(guard_conditions_, m_arg)]_vars

\* An add call with a guard condition that is a member has thrown.
C14_Witness ==
  /\ m_pc = "idle"
  /\ m_result = "runtime_error"
  /\ Len(guard_conditions_) = NumGC

\* C15: the step that completes remove_guard_condition throws
\* std::runtime_error and keeps the membership when the guard condition is no
\* member, and otherwise removes it and keeps every other member, in order.
C15_RemoveExact ==
  [][m_pc = "waiting" /\ m_op = "remove" /\ m_pc' = "idle" =>
       IF m_arg \notin Members
         THEN /\ m_result' = "runtime_error"
              /\ guard_conditions_' = guard_conditions_
         ELSE /\ m_result' = "ok"
              /\ guard_conditions_' =
                   SelectSeq(guard_conditions_, LAMBDA x : x # m_arg)
              /\ Range(guard_conditions_') = Members \ {m_arg}]_vars

\* A remove call with a guard condition that is no member of a wait set
\* with members can take the write lock.
C15_Witness ==
  /\ m_pc = "waiting"
  /\ m_op = "remove"
  /\ ~reader_active_
  /\ m_arg \notin Members
  /\ Members # {}

C17_SumNeverWraps ==
  d_op = "plus" /\ d_out.kind = "ok" => d_out.ns = d_lhs + d_rhs

\* C18: a - b, when it returns, returns the exact difference of the
\* nanoseconds, and it throws std::overflow_error or std::underflow_error
\* whenever the exact difference does not fit (a build that traps on the
\* undefined operation neither returns nor throws, and is left aside).
C18_DifferenceNeverWraps ==
  d_op = "minus" /\ d_out.kind # "abort" =>
    /\ d_out.kind = "ok" => d_out.ns = d_lhs - d_rhs
    /\ (d_lhs - d_rhs) \notin Int64 =>
         d_out.kind \in {"overflow_error", "underflow_error"}

\* C19: a + b throws std::overflow_error exactly when the exact sum is above
\* INT64_MAX, std::underflow_error exactly when it is below INT64_MIN, and
\* returns when the exact sum fits (a build that traps on the undefined
\* operation is left aside).
C19_SumThrowsExactly ==
  d_op = "plus" /\ d_out.kind # "abort" =>
    /\ d_out.kind = "overflow_error" <=> d_lhs + d_rhs > INT64_MAX
    /\ d_out.kind = "underflow_error" <=> d_lhs + d_rhs < INT64_MIN
    /\ (d_lhs + d_rhs) \in Int64 => d_out.kind = "ok"

\* C20: a Duration whose whole seconds fit in int32_t, made into a message
\* and back, is the Duration it was.
C20_MsgRoundTrip ==
  d_op = "msg" /\ RCL_NS_TO_S(d_lhs) \in INT32_MIN..INT32_MAX =>
    d_out.kind = "ok" /\ d_out.ns = d_lhs

\* C21: for every message, the Duration constructed from it and the Duration
\* it was assigned to are equal, and both are sec * 10^9 + nanosec
\* nanoseconds.
C21_ConstructEqualsAssign ==
  d_op = "construct" /\ d_assign.kind # "none" =>
    /\ d_out.kind = "ok"
    /\ d_assign.kind = "ok"
    /\ d_out.ns = d_assign.ns
    /\ d_lhs = d_out.ns
    /\ d_out.ns = d_msg.sec * NsPerSec + d_msg.nanosec

\* A message of negative seconds and some nanoseconds has been constructed
\* from and assigned.
C21_Witness ==
  /\ d_op = "construct"
  /\ d_assign.kind = "ok"
  /\ d_msg.sec = INT32_MIN
  /\ d_msg.nanosec = Pow2(HalfBits) - 1

\* C22: while the waiting thread is blocked in rcl_wait, the rcl wait set
\* holds exactly the members of the wait set, each once and none destroyed;
\* every entry into rcl_wait, the first and the one after an interruption,
\* is made on the members of that moment, and the membership does not change
\* while the thread is blocked.
C22_BlockedOnCurrentMembers ==
  /\ [](w_pc = "rcl_wait" =>
          /\ get_rcl_wait_set = Members
          /\ Cardinality(Members) = Len(guard_conditions_)
          /\ \A g \in Members : Alive(g))
  /\ [][w_pc = "lock" /\ w_pc' = "rcl_wait" =>
          /\ rcl_wait_set' = AliveMembers
          /\ rcl_wait_set' = Members']_vars
  /\ [][w_pc = "rcl_wait" => guard_conditions_' = guard_conditions_]_vars

\* A wait that was interrupted blocks again after a call of the other thread
\* has returned, on the members there are and not on a live entity that is
\* none.
C22_Witness ==
  /\ w_pc = "rcl_wait"
  /\ interrupted
  /\ m_pc = "idle"
  /\ m_result = "ok"
  /\ Members # {}
  /\ \E g \in GC : g \notin Members /\ Alive(g) /\ g \notin rcl_wait_set

\* C23: while a Ready WaitResult is alive the wait set holds the read side of
\* the lock, and no step changes the membership or the ready entities the
\* result shows, which all stay alive; a call of add_guard_condition,
\* remove_guard_condition or prune_deleted_entities made meanwhile stays
\* pending, and can take effect once the result is released.
C23_WaitResultHoldsOffMutation ==
  /\ [](w_pc = "holding" =>
          /\ wait_result_holding_
          /\ reader_active_
          /\ ~ENABLED SyncApply
          /\ \A g \in get_rcl_wait_set : g \in Members /\ Alive(g))
  /\ [][w_pc = "holding" =>
          /\ guard_conditions_' = guard_conditions_
          /\ rcl_wait_set' = rcl_wait_set
          /\ (m_pc = "waiting" => m_pc' = "waiting")]_vars
  /\ [](w_pc = "idle" /\ m_pc = "waiting" => ENABLED SyncApply)

\* The other thread has called remove_guard_condition for an entity that the
\* WaitResult shows as ready, and waits.
C23_Witness ==
  /\ w_pc = "holding"
  /\ wait_result_holding_
  /\ m_pc = "waiting"
  /\ m_op = "remove"
  /\ m_arg \in rcl_wait_set

====
